---- MODULE Spec2Model ----
(***************************************************************************)
(* badger_batcher: Batcher (core.py) over CacheIterator (utils/iterating). *)
(*                                                                         *)
(* A record is abstracted to what the code observes of it: its Python      *)
(* truth value (core.py:202 tests `if cache := self._iter_state.prev`) and *)
(* the value size_calc_fn gives for it.  An optional integer argument is   *)
(* an integer or None; an optional record (CacheIterator.prev) is the      *)
(* empty sequence (None) or a one-element sequence.                        *)
(***************************************************************************)
EXTENDS Integers, Sequences, FiniteSets, TLC

\* ------------------------------------------------------------------ bounds
MaxLen == 2        \* longest input sequence
MaxSize == 2       \* largest record size and largest size limit
MaxBatchLen == 2   \* largest max_batch_len

\* ------------------------------------------------------------- value sets
None == -1

Record == [truthy : BOOLEAN, size : 0..MaxSize]

RECURSIVE SeqsUpTo(_, _)
SeqsUpTo(S, n) ==
    IF n = 0 THEN {<<>>}
    ELSE LET shorter == SeqsUpTo(S, n - 1)
         IN shorter \cup {Append(s, x) : s \in {t \in shorter : Len(t) = n - 1}, x \in S}

Inputs == SeqsUpTo(Record, MaxLen)

OptSize == {None} \cup (0..MaxSize)
OptLen == {None} \cup (0..MaxBatchLen)

Args == [max_batch_len : OptLen,
         max_record_size : OptSize,
         max_batch_size : OptSize,
         size_calc_fn : BOOLEAN,
         when_record_size_exceeded : {"raises", "skip", "party"}]

VARIABLES
    args,                       \* the arguments given to Batcher(...)
    records,                    \* self.records, the source's records in order
    replayable,                 \* TRUE: a list (iter() restarts); FALSE: a one-shot iterator
    obj,                        \* "unconstructed", "Batcher", or "ValueError"
    max_batch_len, max_record_size, max_batch_size,
    size_calc_fn, when_record_size_exceeded,
    _iter_state,                \* Batcher._iter_state: "None" or "CacheIterator"
    prev,                       \* CacheIterator.prev
    pos,                        \* number of records the source iterator has yielded
    _batch_cur_size,            \* Batcher._batch_cur_size
    start,                      \* pos when the current pass began
    hist,                       \* what the __next__ calls of the current pass gave
    result                      \* outcome of the last call

vars == <<args, records, replayable, obj, max_batch_len, max_record_size,
          max_batch_size, size_calc_fn, when_record_size_exceeded, _iter_state,
          prev, pos, _batch_cur_size, start, hist, result>>

config == <<args, records, replayable, obj, max_batch_len, max_record_size,
            max_batch_size, size_calc_fn, when_record_size_exceeded>>

\* ------------------------------------------------------ Python semantics
\* bool(x) of an Optional[int]: None and 0 are false
Truthy(x) == x # None /\ x # 0

\* bool(x) of an Optional[record]
TruthyRec(opt) == opt # <<>> /\ opt[1].truthy

\* self.size_calc_fn(record)
SizeOf(record) == record.size

RECURSIVE SumSize(_)
SumSize(batch) == IF batch = <<>> THEN 0 ELSE SizeOf(Head(batch)) + SumSize(Tail(batch))

\* --------------------------------------------------------- Batcher.__init__
\* core.py:100-113: the argument checks, first failing check wins
InitError(a) ==
    IF (Truthy(a.max_record_size) \/ Truthy(a.max_batch_size)) /\ ~a.size_calc_fn
    THEN "ValueError"
    ELSE IF a.when_record_size_exceeded \notin {"raises", "skip"}
    THEN "ValueError"
    ELSE "ok"

\* core.py:102-104: max_record_size defaults to max_batch_size
InitMaxRecordSize(a) ==
    IF Truthy(a.max_batch_size) /\ ~Truthy(a.max_record_size)
    THEN a.max_batch_size
    ELSE a.max_record_size

\* the attribute values __init__ leaves on a constructed Batcher
Constructed(a) ==
    /\ obj = "Batcher"
    /\ max_batch_len = a.max_batch_len
    /\ max_record_size = InitMaxRecordSize(a)
    /\ max_batch_size = a.max_batch_size
    /\ size_calc_fn = a.size_calc_fn
    /\ when_record_size_exceeded = a.when_record_size_exceeded
    /\ _iter_state = "None"
    /\ _batch_cur_size = 0

\* ------------------------------------------------------- the three checks
\* the length check with > where the code has >=
_check_max_batch_len_off_by_one(batch) ==
    IF Truthy(max_batch_len) THEN Len(batch) > max_batch_len ELSE FALSE

_check_max_batch_len(batch) ==
    IF Truthy(max_batch_len) THEN Len(batch) >= max_batch_len ELSE FALSE

_check_max_record_size(record) ==
    IF Truthy(max_record_size) THEN SizeOf(record) > max_record_size ELSE FALSE

\* the cumulative-size check splitting already at a candidate equal to the limit
_check_new_batch_size_at_limit(record, cur) ==
    IF Truthy(max_batch_size)
    THEN LET new_batch_size == cur + SizeOf(record)
         IN IF new_batch_size >= max_batch_size
            THEN [ret |-> TRUE, cur |-> cur]
            ELSE [ret |-> FALSE, cur |-> new_batch_size]
    ELSE [ret |-> FALSE, cur |-> cur]

\* returns the verdict and the value left in self._batch_cur_size
_check_new_batch_size(record, cur) ==
    IF Truthy(max_batch_size)
    THEN LET new_batch_size == cur + SizeOf(record)
         IN IF new_batch_size > max_batch_size
            THEN [ret |-> TRUE, cur |-> cur]
            ELSE [ret |-> FALSE, cur |-> new_batch_size]
    ELSE [ret |-> FALSE, cur |-> cur]

\* --------------------------------------------------------- Batcher.__next__
\* the for loop without `self._iter_state = None` (core.py:232) at exhaustion
RECURSIVE Loop_keeps_iter_state(_, _, _, _)
Loop_keeps_iter_state(batch, cur, p, pv) ==
    IF p >= Len(records)
    THEN [kind |-> "batch", why |-> "exhausted", batch |-> batch,
          iter |-> "CacheIterator", cur |-> 0, pos |-> p, prev |-> pv]
    ELSE LET record == records[p + 1]
             size == _check_new_batch_size(record, cur)
             stop == [kind |-> "batch", why |-> "len", batch |-> batch,
                      iter |-> "CacheIterator", cur |-> cur, pos |-> p + 1,
                      prev |-> <<record>>]
         IN IF _check_max_record_size(record)
            THEN IF when_record_size_exceeded = "skip"
                 THEN Loop_keeps_iter_state(batch, cur, p + 1, <<record>>)
                 ELSE [stop EXCEPT !.kind = "RecordSizeExceeded", !.why = "raise",
                                   !.batch = <<record>>]
            ELSE IF _check_max_batch_len(batch) THEN stop
            ELSE IF size.ret THEN [stop EXCEPT !.why = "size"]
            ELSE Loop_keeps_iter_state(Append(batch, record), size.cur, p + 1, <<record>>)

\* The for loop of core.py:210-230 from source position p with the batch and
\* counter built so far; pv is CacheIterator.prev.
RECURSIVE Loop(_, _, _, _)
Loop(batch, cur, p, pv) ==
    IF p >= Len(records)
    THEN \* CacheIterator.__next__ raised StopIteration: core.py:232-234
         [kind |-> "batch", why |-> "exhausted", batch |-> batch,
          iter |-> "None", cur |-> 0, pos |-> p, prev |-> pv]
    ELSE LET record == records[p + 1]
             size == _check_new_batch_size(record, cur)
         IN IF _check_max_record_size(record)
            THEN IF when_record_size_exceeded = "raises"
                 THEN [kind |-> "RecordSizeExceeded", why |-> "raise", batch |-> <<record>>,
                       iter |-> "CacheIterator", cur |-> cur, pos |-> p + 1,
                       prev |-> <<record>>]
                 ELSE IF when_record_size_exceeded = "skip"
                 THEN Loop(batch, cur, p + 1, <<record>>)
                 ELSE [kind |-> "NotImplementedError", why |-> "raise", batch |-> <<record>>,
                       iter |-> "CacheIterator", cur |-> cur, pos |-> p + 1,
                       prev |-> <<record>>]
            ELSE IF _check_max_batch_len(batch)
            THEN [kind |-> "batch", why |-> "len", batch |-> batch,
                  iter |-> "CacheIterator", cur |-> cur, pos |-> p + 1,
                  prev |-> <<record>>]
            ELSE IF size.ret
            THEN [kind |-> "batch", why |-> "size", batch |-> batch,
                  iter |-> "CacheIterator", cur |-> size.cur, pos |-> p + 1,
                  prev |-> <<record>>]
            ELSE Loop(Append(batch, record), size.cur, p + 1, <<record>>)

\* core.py:201-207: the batch and the counter a call starts with
SeedBatch(pv) == IF TruthyRec(pv) THEN pv ELSE <<>>

\* the counter left as it was when the call starts without a carried-over record
SeedSize_keeps_counter(pv, cur) ==
    IF Truthy(max_batch_size) /\ TruthyRec(pv) THEN SizeOf(pv[1]) ELSE cur

SeedSize(pv, cur) ==
    IF Truthy(max_batch_size)
    THEN (IF TruthyRec(pv) THEN SizeOf(pv[1]) ELSE 0)
    ELSE cur

\* __next__ without the `if not self._iter_state: raise StopIteration` guard
NextCall_no_exhausted_guard(it, pv, p, cur) ==
    Loop(SeedBatch(pv), SeedSize(pv, cur), p, pv)

\* __next__ over a source that hands out the record a split fired on again
NextCall_split_not_consumed(it, pv, p, cur) ==
    IF it = "None"
    THEN [kind |-> "StopIteration", why |-> "none", batch |-> <<>>,
          iter |-> it, cur |-> cur, pos |-> p, prev |-> pv]
    ELSE LET r == Loop(SeedBatch(pv), SeedSize(pv, cur), p, pv)
         IN IF r.why \in {"len", "size"} THEN [r EXCEPT !.pos = @ - 1] ELSE r

\* one call of __next__ in the state (it, pv, p, cur)
NextCall(it, pv, p, cur) ==
    IF it = "None"
    THEN [kind |-> "StopIteration", why |-> "none", batch |-> <<>>,
          iter |-> it, cur |-> cur, pos |-> p, prev |-> pv]
    ELSE Loop(SeedBatch(pv), SeedSize(pv, cur), p, pv)

\* ----------------------------------------------------------- Batcher.batches
\* list(it) of core.py:245 from the state (it, pv, p, cur): __next__ is called
\* until it raises; h collects what the calls gave.  StopIteration ends the
\* list, any other exception goes through to the caller.
RECURSIVE DrainFrom(_, _, _, _, _)
DrainFrom(it, pv, p, cur, h) ==
    LET r == NextCall(it, pv, p, cur)
        e == [kind |-> r.kind, why |-> r.why, batch |-> r.batch]
    IN IF r.kind = "StopIteration" THEN h
       ELSE IF r.kind = "batch" THEN DrainFrom(r.iter, r.prev, r.pos, r.cur, Append(h, e))
       ELSE Append(h, e)

\* batches() on a Batcher whose counter holds cur, over a source at position p:
\* iter(self) makes a new CacheIterator (prev = None), list() drains it
batches(p, cur) == DrainFrom("CacheIterator", <<>>, p, cur, <<>>)

\* ---------------------------------------------------------------- actions
InitArgs ==
    /\ args \in Args
    /\ records \in Inputs
    /\ replayable \in BOOLEAN
    /\ obj = "unconstructed"
    /\ max_batch_len = None /\ max_record_size = None /\ max_batch_size = None
    /\ size_calc_fn = FALSE /\ when_record_size_exceeded = "raises"
    /\ _iter_state = "None" /\ prev = <<>> /\ pos = 0 /\ _batch_cur_size = 0
    /\ start = 0 /\ hist = <<>> /\ result = "none"

\* Batcher(records, ...): core.py:79-116
Construct ==
    /\ obj = "unconstructed"
    /\ IF InitError(args) = "ok"
       THEN /\ obj' = "Batcher"
            /\ max_batch_len' = args.max_batch_len
            /\ max_record_size' = InitMaxRecordSize(args)
            /\ max_batch_size' = args.max_batch_size
            /\ size_calc_fn' = args.size_calc_fn
            /\ when_record_size_exceeded' = args.when_record_size_exceeded
            /\ result' = "constructed"
       ELSE /\ obj' = "ValueError"
            /\ result' = "ValueError"
            /\ UNCHANGED <<max_batch_len, max_record_size, max_batch_size,
                           size_calc_fn, when_record_size_exceeded>>
    /\ UNCHANGED <<args, records, replayable, _iter_state, prev, pos,
                   _batch_cur_size, start, hist>>

\* the states a successful construction leaves
Init ==
    /\ args \in {a \in Args : InitError(a) = "ok"}
    /\ records \in Inputs
    /\ replayable \in BOOLEAN
    /\ Constructed(args)
    /\ prev = <<>> /\ pos = 0 /\ start = 0 /\ hist = <<>> /\ result = "constructed"

\* iter(batcher): core.py:168-176, a new CacheIterator over iter(self.records)
Iter ==
    /\ obj = "Batcher"
    /\ _iter_state' = "CacheIterator"
    /\ prev' = <<>>
    /\ pos' = IF replayable THEN 0 ELSE pos
    /\ start' = IF replayable THEN 0 ELSE pos
    /\ hist' = <<>>
    /\ result' = "iter"
    /\ UNCHANGED <<config, _batch_cur_size>>

\* next(batcher): core.py:178-234
Next_ ==
    /\ obj = "Batcher"
    /\ LET r == NextCall(_iter_state, prev, pos, _batch_cur_size)
       IN /\ _iter_state' = r.iter
          /\ prev' = r.prev
          /\ pos' = r.pos
          /\ _batch_cur_size' = r.cur
          /\ result' = r.kind
          /\ hist' = IF r.kind = "StopIteration" THEN hist
                     ELSE Append(hist, [kind |-> r.kind, why |-> r.why, batch |-> r.batch])
    /\ UNCHANGED <<config, start>>

Next == Iter \/ Next_

Spec == Init /\ [][Next]_vars

SpecInit == InitArgs /\ [][Construct]_vars

\* ------------------------------------------------- reading a pass's history
\* the records the current pass can pull, in source order
PassInput == SubSeq(records, start + 1, Len(records))

\* the batches returned so far in the pass, concatenated in order
RECURSIVE Concat(_)
Concat(h) ==
    IF h = <<>> THEN <<>>
    ELSE (IF Head(h).kind = "batch" THEN Head(h).batch ELSE <<>>) \o Concat(Tail(h))

\* the pass has returned its last batch (the source was exhausted)
PassDone == hist # <<>> /\ hist[Len(hist)].why = "exhausted"

\* a call of the pass raised RecordSizeExceeded
Raised == \E i \in 1..Len(hist) : hist[i].kind = "RecordSizeExceeded"

\* index of the first call that raised, 0 if none
FirstRaise ==
    IF Raised
    THEN CHOOSE i \in 1..Len(hist) :
            /\ hist[i].kind = "RecordSizeExceeded"
            /\ \A j \in 1..(i - 1) : hist[j].kind # "RecordSizeExceeded"
    ELSE 0

\* index in s of the first record larger than M, 0 if none
FirstOver(s, M) ==
    IF \E i \in 1..Len(s) : SizeOf(s[i]) > M
    THEN CHOOSE i \in 1..Len(s) :
            /\ SizeOf(s[i]) > M
            /\ \A j \in 1..(i - 1) : SizeOf(s[j]) <= M
    ELSE 0

\* a is b with some elements removed, order kept
RECURSIVE IsSubseq(_, _)
IsSubseq(a, b) ==
    IF a = <<>> THEN TRUE
    ELSE IF b = <<>> THEN FALSE
    ELSE IF Head(a) = Head(b) THEN IsSubseq(Tail(a), Tail(b))
    ELSE IsSubseq(a, Tail(b))

EmptyBatch == [kind |-> "batch", why |-> "exhausted", batch |-> <<>>]

\* ------------------------------------------------------------------ claims

\* C1: once a pass has run to exhaustion without raising, the returned batches
\* concatenated in order are the pass's input with exactly the records the Skip
\* policy dropped removed: nothing lost, duplicated or reordered, whatever the
\* record values are.
C1_BatchesReproduceInput ==
    (PassDone /\ ~Raised) =>
        Concat(hist) = SelectSeq(PassInput,
                          LAMBDA r : ~(when_record_size_exceeded = "skip"
                                       /\ _check_max_record_size(r)))

\* C2: with max_batch_size = S given (any max_record_size, max_batch_len and
\* policy), every returned batch has cumulative size at most S.
C2_BatchSizeWithinLimit ==
    (args.max_batch_size # None /\ args.size_calc_fn) =>
        \A i \in 1..Len(hist) :
            hist[i].kind = "batch" => SumSize(hist[i].batch) <= args.max_batch_size

\* C3: with max_batch_len = L, L a positive integer, every returned batch,
\* also one that starts with a carried-over record, has at most L records.
C3_BatchLenWithinLimit ==
    (max_batch_len # None /\ max_batch_len >= 1) =>
        \A i \in 1..Len(hist) :
            hist[i].kind = "batch" => Len(hist[i].batch) <= max_batch_len

\* C3 witness: a batch cut by the length limit is followed by a batch that
\* starts with the carried-over record and is itself full.
C3_Witness ==
    /\ max_batch_len # None /\ max_batch_len >= 1
    /\ \E i \in 1..(Len(hist) - 1) :
          /\ hist[i].why = "len"
          /\ hist[i + 1].kind = "batch"
          /\ hist[i + 1].batch # <<>>
          /\ hist[i + 1].batch[1] = records[start + Len(Concat(SubSeq(hist, 1, i))) + 1]
          /\ Len(hist[i + 1].batch) = max_batch_len

\* C4: under Skip with max_record_size = M, any non-negative M: no call raises,
\* no returned batch holds a record larger than M, a skipped record counts
\* neither toward max_batch_len (a batch cut by the length limit is full) nor
\* toward the counter (after a split the counter is the returned batch's size),
\* and every record of size <= M is delivered.
C4_SkipDropsOversize ==
    (when_record_size_exceeded = "skip" /\ args.max_record_size # None) =>
        LET M == args.max_record_size
        IN /\ ~Raised
           /\ \A i \in 1..Len(hist) : \A j \in 1..Len(hist[i].batch) :
                 SizeOf(hist[i].batch[j]) <= M
           /\ \A i \in 1..Len(hist) :
                 hist[i].why = "len" => Len(hist[i].batch) = max_batch_len
           /\ (Truthy(max_batch_size) /\ hist # <<>>
                 /\ hist[Len(hist)].why \in {"len", "size"})
                 => _batch_cur_size = SumSize(hist[Len(hist)].batch)
           /\ PassDone =>
                 Concat(hist) = SelectSeq(PassInput, LAMBDA r : SizeOf(r) <= M)

\* C5: under Raise with max_record_size = M, the call that pulls the first
\* record larger than M raises RecordSizeExceeded for that record, no call
\* raises before it, the batches returned before it hold only records that
\* precede it, in order, and with no such record nothing is ever raised.
C5_RaiseAtFirstOversize ==
    (when_record_size_exceeded = "raises" /\ args.max_record_size # None) =>
        LET k == FirstOver(PassInput, args.max_record_size)
            pulled == pos - start
            r == FirstRaise
        IN /\ (k = 0 \/ pulled < k) => r = 0
           /\ (k > 0 /\ pulled >= k) =>
                 /\ r > 0
                 /\ hist[r].batch = <<PassInput[k]>>
                 /\ IsSubseq(Concat(SubSeq(hist, 1, r - 1)), SubSeq(PassInput, 1, k - 1))

\* C6: RecordSizeExceeded is terminal: after a call of the pass has raised it,
\* no later call of the pass returns a batch.
C6_RaiseIsTerminal ==
    \A i \in 1..Len(hist) : \A j \in (i + 1)..Len(hist) :
        hist[i].kind = "RecordSizeExceeded" => hist[j].kind # "batch"

\* C7: construction fails with ValueError whenever max_record_size or
\* max_batch_size is given (any non-negative integer) without size_calc_fn, and
\* whenever when_record_size_exceeded is not a recognised value; no record has
\* been pulled by then.
C7_ConstructRejects ==
    (obj # "unconstructed"
        /\ \/ (args.max_record_size # None \/ args.max_batch_size # None)
                 /\ ~args.size_calc_fn
           \/ args.when_record_size_exceeded \notin {"raises", "skip"})
    => (obj = "ValueError" /\ pos = 0)

\* C8: with max_batch_size = S given and max_record_size not given, a record
\* larger than S is handled by the overflow policy (the call that pulls it
\* raises under Raise, nothing raises under Skip) and is never placed in a
\* returned batch, not even alone.
C8_RecordSizeDefaultsToBatchSize ==
    (args.max_batch_size # None /\ args.max_record_size = None) =>
        LET S == args.max_batch_size
            k == FirstOver(PassInput, S)
        IN /\ \A i \in 1..Len(hist) :
                 hist[i].kind = "batch" =>
                     \A j \in 1..Len(hist[i].batch) : SizeOf(hist[i].batch[j]) <= S
           /\ when_record_size_exceeded = "skip" => ~Raised
           /\ (when_record_size_exceeded = "raises" /\ k > 0 /\ pos - start >= k)
                 => Raised

\* C9: on an empty input the first call of a pass returns the empty batch and
\* exhausts the Batcher, and every other call (a later one, or one before any
\* pass) signals StopIteration and returns nothing.
C9_EmptyInput ==
    [][(records = <<>> /\ result' # "iter") =>
          IF _iter_state = "CacheIterator" /\ hist = <<>>
          THEN result' = "batch" /\ hist' = <<EmptyBatch>> /\ _iter_state' = "None"
          ELSE result' = "StopIteration" /\ hist' = hist]_vars

\* C9 witness: the empty input's pass gave its one empty batch and a later
\* call signalled StopIteration.
C9_Witness ==
    records = <<>> /\ hist = <<EmptyBatch>> /\ result = "StopIteration"

\* C10: with neither max_batch_len nor max_batch_size given, a pass that runs
\* to exhaustion without raising returns exactly one batch: the input in order
\* without the records larger than max_record_size (all of it when
\* max_record_size is not given or nothing exceeds it).
C10_NoSplitLimitOneBatch ==
    (args.max_batch_len = None /\ args.max_batch_size = None /\ PassDone /\ ~Raised) =>
        hist = << [kind |-> "batch", why |-> "exhausted",
                   batch |-> IF when_record_size_exceeded = "skip"
                                /\ args.max_record_size # None
                             THEN SelectSeq(PassInput,
                                     LAMBDA r : SizeOf(r) <= args.max_record_size)
                             ELSE PassInput] >>

\* C11: with only max_batch_len = L given (L positive) and n >= 1 records, a
\* pass run to exhaustion returns exactly ceil(n / L) batches, batch i being
\* the input slice (i-1)*L+1 .. min(i*L, n): all but the last are full, and no
\* trailing empty batch follows when L divides n.
C11_LenOnlySlices ==
    (args.max_batch_len # None /\ args.max_batch_len >= 1
        /\ args.max_record_size = None /\ args.max_batch_size = None
        /\ PassDone /\ Len(PassInput) >= 1) =>
        LET n == Len(PassInput)
            L == args.max_batch_len
            k == (n + L - 1) \div L
        IN /\ Len(hist) = k
           /\ \A i \in 1..Len(hist) :
                 /\ hist[i].kind = "batch"
                 /\ hist[i].batch =
                       SubSeq(PassInput, (i - 1) * L + 1,
                              IF i * L < n THEN i * L ELSE n)

\* C12: exhaustion is terminal within a pass: once a call has returned because
\* the source was exhausted, and likewise before any pass has been started,
\* every call (until a new pass is started) signals StopIteration, returns no
\* batch and pulls nothing.
C12_ExhaustionIsTerminal ==
    [][((PassDone \/ (hist = <<>> /\ result # "iter")) /\ result' # "iter") =>
          (result' = "StopIteration" /\ hist' = hist /\ pos' = pos)]_vars

\* C12 witness: a non-empty source was drained and a later call signalled
\* StopIteration.
C12_Witness ==
    records # <<>> /\ PassDone /\ result = "StopIteration"

\* C13: the batch sequence depends on configuration and input only: on a
\* replayable source, a pass just started on a Batcher, whatever passes were
\* completed or abandoned on it before, gives call by call what the first pass
\* of a newly constructed Batcher gives (counter 0, nothing carried over), and
\* so does batches().
C13_FreshPassRepeatsFirst ==
    (replayable /\ obj = "Batcher") =>
        /\ batches(0, _batch_cur_size) = batches(0, 0)
        /\ result = "iter" =>
              DrainFrom(_iter_state, prev, pos, _batch_cur_size, <<>>) = batches(0, 0)

\* C13 witness: a new pass was started on a replayable source after an earlier
\* pass was abandoned with a record parked and the counter non-zero.
C13_Witness ==
    /\ replayable /\ result = "iter" /\ _batch_cur_size > 0
    /\ Len(batches(0, 0)) >= 2

\* C14: when a call returned because a split fired on the just-pulled record r
\* (length, cumulative size, or both), r is parked, and the next call of the
\* pass returns a batch whose first element is r, whatever value r is; when
\* max_batch_size is in effect the counter was started at size_of(r), so after
\* a further split it is the size of the batch returned.
C14_SplitRecordCarriedOver ==
    [][(hist # <<>> /\ hist[Len(hist)].why \in {"len", "size"} /\ result' # "iter") =>
          LET r == records[pos]
              next == hist'[Len(hist')]
          IN /\ prev = <<r>>
             /\ Len(hist') = Len(hist) + 1
             /\ next.kind = "batch" =>
                   /\ next.batch # <<>>
                   /\ next.batch[1] = r
                   /\ (Truthy(max_batch_size) /\ next.why \in {"len", "size"})
                         => _batch_cur_size' = SumSize(next.batch)]_vars

\* C15: a batch returned while the source is not exhausted was closed by the
\* record r pulled last: r passed the record-size check, and either the batch
\* already holds max_batch_len records or its cumulative size plus size_of(r)
\* is strictly greater than max_batch_size (a candidate equal to the limit is
\* appended, not split on).
C15_GreedyMaximal ==
    (result = "batch" /\ _iter_state = "CacheIterator") =>
        LET batch == hist[Len(hist)].batch
            r == records[pos]
        IN /\ pos >= 1
           /\ ~_check_max_record_size(r)
           /\ \/ max_batch_len # None /\ Len(batch) = max_batch_len
              \/ max_batch_size # None /\
                    SumSize(batch) + SizeOf(r) > max_batch_size

C15_Witness ==
    /\ result = "batch" /\ _iter_state = "CacheIterator"
    /\ max_batch_len = None /\ max_batch_size = MaxSize
    /\ Len(hist) = 1
    /\ SumSize(hist[1].batch) = 1 /\ SizeOf(records[pos]) = MaxSize

\* number of records of the pulled prefix s dropped under the skip policy
RECURSIVE Skipped(_)
Skipped(s) ==
    IF s = <<>> \/ when_record_size_exceeded # "skip" THEN 0
    ELSE (IF _check_max_record_size(s[1]) THEN 1 ELSE 0) + Skipped(Tail(s))

\* C16: construction and starting a pass pull nothing, and after every call
\* that returns a batch the records pulled in the pass are exactly the records
\* delivered in returned batches, the records skipped, and one parked
\* carry-over record after a split (none after exhaustion).
C16_LazyOneLookahead ==
    /\ result \in {"constructed", "iter"} => pos = start
    /\ result = "constructed" => pos = 0
    /\ result = "batch" =>
          pos - start = Len(Concat(hist))
                          + Skipped(SubSeq(records, start + 1, pos))
                          + (IF _iter_state = "CacheIterator" THEN 1 ELSE 0)

\* ------------------------------------------------ CacheIterator on its own
\* In SpecCache the object is a CacheIterator over `records`: _iter_state is
\* CacheIterator._iter_state ("None" or "iterator"), prev is CacheIterator.prev,
\* pos the position of the wrapped iterator, and hist the items returned so far.

\* __next__ without `self.prev = item` (iterating.py:32)
CacheIterator__next___no_store(it, p, pv) ==
    IF it = "None" THEN [kind |-> "TypeError", item |-> <<>>, pos |-> p, prev |-> pv]
    ELSE IF p >= Len(records)
    THEN [kind |-> "StopIteration", item |-> <<>>, pos |-> p, prev |-> pv]
    ELSE [kind |-> "item", item |-> <<records[p + 1]>>, pos |-> p + 1, prev |-> pv]

\* CacheIterator.__next__: next(None) is a TypeError; StopIteration of the
\* wrapped iterator propagates before prev is assigned
CacheIterator__next__(it, p, pv) ==
    IF it = "None" THEN [kind |-> "TypeError", item |-> <<>>, pos |-> p, prev |-> pv]
    ELSE IF p >= Len(records)
    THEN [kind |-> "StopIteration", item |-> <<>>, pos |-> p, prev |-> pv]
    ELSE [kind |-> "item", item |-> <<records[p + 1]>>, pos |-> p + 1,
          prev |-> <<records[p + 1]>>]

\* CacheIterator(records)
InitCache ==
    /\ records \in Inputs
    /\ replayable \in BOOLEAN
    /\ obj = "CacheIterator"
    /\ args = [max_batch_len |-> None, max_record_size |-> None,
               max_batch_size |-> None, size_calc_fn |-> FALSE,
               when_record_size_exceeded |-> "raises"]
    /\ max_batch_len = None /\ max_record_size = None /\ max_batch_size = None
    /\ size_calc_fn = FALSE /\ when_record_size_exceeded = "raises"
    /\ _iter_state = "None" /\ prev = <<>> /\ pos = 0 /\ _batch_cur_size = 0
    /\ start = 0 /\ hist = <<>> /\ result = "constructed"

\* iter(ci): iterating.py:26-28; iter() of a one-shot iterator is that iterator.
\* The number of items ever returned is capped to keep hist finite.
CacheIter ==
    /\ obj = "CacheIterator"
    /\ Len(hist) <= MaxLen
    /\ _iter_state' = "iterator"
    /\ pos' = IF replayable THEN 0 ELSE pos
    /\ result' = "iter"
    /\ UNCHANGED <<config, prev, _batch_cur_size, start, hist>>

\* next(ci): iterating.py:30-33
CachePull ==
    /\ obj = "CacheIterator"
    /\ LET r == CacheIterator__next__(_iter_state, pos, prev)
       IN /\ pos' = r.pos
          /\ prev' = r.prev
          /\ result' = r.kind
          /\ hist' = IF r.kind = "item"
                     THEN Append(hist, [kind |-> "item", why |-> "pull", batch |-> r.item])
                     ELSE hist
    /\ UNCHANGED <<config, _iter_state, _batch_cur_size, start>>

NextCache == CacheIter \/ CachePull

SpecCache == InitCache /\ [][NextCache]_vars

\* C17: on an iterated CacheIterator, prev is empty until the first item is
\* returned and is afterwards the item returned last; a pull with records left
\* returns the next record of the source and stores exactly it in prev; a pull
\* on the exhausted source raises StopIteration and changes nothing, and so do
\* the pulls after it.
C17_PullContract ==
    [][/\ prev = (IF hist = <<>> THEN <<>> ELSE hist[Len(hist)].batch)
       /\ (_iter_state = "iterator" /\ result' # "iter") =>
             IF pos < Len(records)
             THEN /\ result' = "item"
                  /\ hist' = Append(hist, [kind |-> "item", why |-> "pull",
                                           batch |-> <<records[pos + 1]>>])
                  /\ prev' = <<records[pos + 1]>>
                  /\ pos' = pos + 1
             ELSE /\ result' = "StopIteration"
                  /\ prev' = prev /\ pos' = pos /\ hist' = hist
       /\ (result = "StopIteration" /\ result' # "iter") =>
             (result' = "StopIteration" /\ prev' = prev)]_vars

C17_Witness ==
    /\ obj = "CacheIterator" /\ result = "StopIteration"
    /\ Len(hist) = 2 /\ prev = <<records[2]>> /\ records[1] # records[2]

\* C18: in a pass over n records in which RecordSizeExceeded is not raised,
\* every call returns a batch or raises StopIteration; a call that returns on
\* a split has pulled a record not pulled before; the pass returns at most
\* n + 1 batches, and after the batch that exhausts the source, at the latest
\* the (n + 1)-th, every call raises StopIteration.
C18_PassTerminates ==
    [][(result' # "iter" /\ ~Raised') =>
          /\ result' \in {"batch", "StopIteration"}
          /\ (result' = "StopIteration") = (_iter_state = "None")
          /\ (result' = "batch" /\ _iter_state' = "CacheIterator") =>
                (pos' > pos /\ pos' <= Len(records))
          /\ Len(hist') <= Len(PassInput) + 1
          /\ Len(hist') = Len(PassInput) + 1 => _iter_state' = "None"]_vars

C18_Witness ==
    /\ ~Raised /\ result = "StopIteration"
    /\ Len(PassInput) = MaxLen /\ Len(hist) = MaxLen + 1

\* C19: when max_record_size <= max_batch_size whenever both are set, an
\* empty batch is returned only as the one batch of a pass that kept no record
\* (every record of the input was skipped, or there was none): a batch
\* returned by a split and a batch that follows a split are never empty.
C19_NoSpuriousEmptyBatch ==
    ((args.max_record_size # None /\ args.max_batch_size # None)
        => args.max_record_size <= args.max_batch_size) =>
        \A i \in 1..Len(hist) :
            (hist[i].kind = "batch" /\ hist[i].batch = <<>>) =>
                /\ i = 1 /\ Len(hist) = 1
                /\ hist[i].why = "exhausted"
                /\ Skipped(PassInput) = Len(PassInput)

\* C20: when max_batch_size is set, the counter a call leaves behind is the
\* cumulative size of the batch it returned on a split (the rejected candidate
\* was not added), is 0 after the call that exhausted the source, and is 0
\* before the first call.
C20_CounterIsBatchSize ==
    args.max_batch_size # None =>
        /\ result = "constructed" => _batch_cur_size = 0
        /\ result = "batch" =>
              _batch_cur_size = (IF _iter_state = "CacheIterator"
                                 THEN SumSize(hist[Len(hist)].batch) ELSE 0)
====
